---------------------------- MODULE Spec2Model ----------------------------
(***************************************************************************)
(* A model of the ipfs-api client (stolab/ipfs-api).                        *)
(*                                                                         *)
(* Two generations of the client live in the repository and both are       *)
(* modelled:                                                               *)
(*   - package main   (src/api.go): Add builds the body with the free      *)
(*     functions createMultiPartBody / createDirectoryMultiPartBody, which *)
(*     call each other recursively and thread the boundary string back;    *)
(*   - package client (src/client/api.go, second half): Add, AddBinary     *)
(*     and the methods Client.createMultiPartBody /                        *)
(*     Client.createDirectoryMultiPartBody, which return a ready request.  *)
(* Actions of package main are prefixed M, those of package client C (the  *)
(* single part path) and D (the directory path).                           *)
(*                                                                         *)
(* A call is a sequence of steps, one per system call or library call, so  *)
(* that calls of several goroutines on one Client interleave.              *)
(* Paths are sequences of one-character strings, so that the code's string *)
(* concatenations (pathName + "/" + name, pathName + name) and path.Base   *)
(* are computed, not assumed.                                              *)
(***************************************************************************)
EXTENDS Naturals, Sequences, FiniteSets, TLC

VARIABLES call, writers, client, goroutines

vars == <<call, writers, client, goroutines>>

(***************************************************************************)
(* Bounds of the model.                                                    *)
(***************************************************************************)
\* I/O faults (a failing stat, open, read or readdir on an existing path)
\* injected into the calls in progress: when one goroutine uses the client,
\* and when several do.
MaxFaults == 1

MaxConcurrentFaults == 0

\* The goroutines that may call into the one Client.
Procs == {"g1", "g2"}

(***************************************************************************)
(* Strings as character sequences.                                         *)
(***************************************************************************)
Slash == <<"/">>

Last(s) == s[Len(s)]

Front(s) == SubSeq(s, 1, Len(s) - 1)

RECURSIVE StripTrailingSlashes(_)
StripTrailingSlashes(p) ==
    IF Len(p) > 0 /\ Last(p) = "/" THEN StripTrailingSlashes(Front(p)) ELSE p

RECURSIVE AfterLastSlash(_)
AfterLastSlash(p) ==
    IF Len(p) = 0 \/ Last(p) = "/" THEN <<>>
    ELSE Append(AfterLastSlash(Front(p)), Last(p))

\* Go's path.Base: "." for the empty path, trailing slashes removed, then the
\* text after the last slash; "/" when the path was slashes only.
Base(p) ==
    IF Len(p) = 0 THEN <<".">>
    ELSE LET q == StripTrailingSlashes(p) IN
         IF Len(q) = 0 THEN Slash ELSE AfterLastSlash(q)

\* The components of a path as the kernel resolves it: the text between
\* slashes, empty components dropped.
RECURSIVE Components(_)
Components(p) ==
    IF Len(p) = 0 THEN <<>>
    ELSE LET head == Components(Front(p)) IN
         IF Last(p) = "/" THEN
            (IF Len(head) > 0 /\ Last(head) = <<>> THEN head ELSE Append(head, <<>>))
         ELSE IF Len(head) = 0 THEN << <<Last(p)>> >>
         ELSE [head EXCEPT ![Len(head)] = Append(@, Last(p))]

Resolve(p) == SelectSeq(Components(p), LAMBDA c : c # <<>>)

(***************************************************************************)
(* The file system the calls run against.  It is never written by the      *)
(* client.  Directory listings are in os.ReadDir's order (sorted by name). *)
(***************************************************************************)
DirNode(names) == [kind |-> "dir", names |-> names, bytes |-> <<>>]

FileNode(bytes) == [kind |-> "file", names |-> <<>>, bytes |-> bytes]

\*   /d/a  /d/x/m  /d/x/n            a directory with a file and a subdirectory
\*   /dx/o                           a sibling whose name is "d" + "x"
\*   /e/                             an empty directory
\*   /f                              a regular file
FSTree ==
    ( <<>> :> DirNode(<< <<"d">>, <<"d", "x">>, <<"e">>, <<"f">> >>) )
    @@ ( << <<"d">> >> :> DirNode(<< <<"a">>, <<"x">> >>) )
    @@ ( << <<"d">>, <<"a">> >> :> FileNode(<<1, 2>>) )
    @@ ( << <<"d">>, <<"x">> >> :> DirNode(<< <<"m">>, <<"n">> >>) )
    @@ ( << <<"d">>, <<"x">>, <<"m">> >> :> FileNode(<<4>>) )
    @@ ( << <<"d">>, <<"x">>, <<"n">> >> :> FileNode(<<5>>) )
    @@ ( << <<"d", "x">> >> :> DirNode(<< <<"o">> >>) )
    @@ ( << <<"d", "x">>, <<"o">> >> :> FileNode(<<6>>) )
    @@ ( << <<"e">> >> :> DirNode(<<>>) )
    @@ ( << <<"f">> >> :> FileNode(<<7, 8>>) )

Exists(p) ==
    /\ Resolve(p) \in DOMAIN FSTree
    /\ (Len(p) > 0 /\ Last(p) = "/") => FSTree[Resolve(p)].kind = "dir"

Node(p) == FSTree[Resolve(p)]

IsDir(p) == Exists(p) /\ Node(p).kind = "dir"

IsRegular(p) == Exists(p) /\ Node(p).kind = "file"

\* os.ReadDir: the entries of a directory, each with its name and IsDir().
ReadDir(p) ==
    [i \in 1..Len(Node(p).names) |->
        [name  |-> Node(p).names[i],
         isDir |-> FSTree[Append(Resolve(p), Node(p).names[i])].kind = "dir"]]

\* The paths handed to Add.
PD  == <<"/", "d">>
PDS == <<"/", "d", "/">>
PDX == <<"/", "d", "/", "x">>
PE  == <<"/", "e">>
PF  == <<"/", "f">>
PQ  == <<"/", "q">>

AddPaths == {PD, PDS, PDX, PE, PF, PQ}


(***************************************************************************)
(* The client and its endpoint table.                                      *)
(***************************************************************************)
apiPath == "/api/v0/"

apiEndpoint == [add |-> apiPath \o "add", cat |-> apiPath \o "cat"]

\* NewIPFSApi(Url, timeout): the Client after construction.
NewIPFSApi(Url, timeout) == [url |-> Url, timeout |-> timeout]

NewLocalApi == NewIPFSApi("http://127.0.0.1:5001", 4)

(***************************************************************************)
(* Errors.  NoErr is Go's nil error.                                       *)
(***************************************************************************)
NoErr == "nil"

(***************************************************************************)
(* The response of the node and its decoding.                              *)
(* A body is a sequence of top-level JSON documents together with whether  *)
(* the text is syntactically valid as a whole; `raw` names the bytes.      *)
(***************************************************************************)
Fields == {"Name", "Hash", "Size"}

JStr(s) == [t |-> "string", s |-> s]

JNum == [t |-> "number", s |-> ""]

JNull == [t |-> "null", s |-> ""]

JObj(f) == [t |-> "object", f |-> f]

JArr == [t |-> "array", f |-> <<>>]

Body(raw, valid, docs) == [raw |-> raw, valid |-> valid, docs |-> docs]

GoodObj == JObj([k \in Fields |-> JStr(k)])

\* IPFSResponse and its zero value (new(IPFSResponse)).
IPFSResponse(name, hash, size) == [Name |-> name, Hash |-> hash, Size |-> size]

ZeroResponse == IPFSResponse("", "", "")

\* The bodies the node answers an add with.
AddBodies ==
    { Body("one object", TRUE, <<GoodObj>>),
      Body("one object followed by garbage", FALSE, <<GoodObj>>),
      Body("two objects, newline delimited", FALSE, <<GoodObj, GoodObj>>),
      Body("Size is a number", TRUE,
           <<JObj([k \in Fields |-> IF k = "Size" THEN JNum ELSE JStr(k)])>>),
      Body("Hash is null, Size is absent", TRUE,
           <<JObj([k \in {"Name", "Hash"} |-> IF k = "Hash" THEN JNull ELSE JStr(k)])>>),
      Body("array", TRUE, <<JArr>>) }

\* A streaming decoder (json.NewDecoder(body).Decode): it decodes the first
\* document it can read and does not look at what follows.
UnmarshalFirstDocument(body, ret) ==
    IF Len(body.docs) = 0 \/ body.docs[1].t # "object" THEN ret
    ELSE LET f == body.docs[1].f IN
         [k \in Fields |->
            IF k \in DOMAIN f /\ f[k].t = "string" THEN f[k].s ELSE ret[k]]

\* json.Unmarshal(bodyBytes, ret): the whole text is validated first
\* (nothing is stored when it is not one valid JSON value); then each key of
\* the object is stored in its field when its value is a string, a null or a
\* wrong-typed value leaving the field as it was.
Unmarshal(body, ret) ==
    IF ~body.valid \/ Len(body.docs) # 1 THEN ret
    ELSE IF body.docs[1].t # "object" THEN ret
    ELSE LET f == body.docs[1].f IN
         [k \in Fields |->
            IF k \in DOMAIN f /\ f[k].t = "string" THEN f[k].s ELSE ret[k]]

\* The identifiers the node holds.
KnownIds == {"QmKnown"}

CatIds == {"QmKnown", "QmUnknown"}

\* The node's answer to cat.
CatResponse(id) ==
    IF id \in KnownIds
    THEN [status |-> 200, body |-> Body("content of " \o id, FALSE, <<>>)]
    ELSE [status |-> 500, body |-> Body("error object", TRUE, <<JObj([k \in {"Message"} |-> JStr(k)])>>)]

NoResp == [status |-> 0, body |-> Body("", FALSE, <<>>)]

(***************************************************************************)
(* mime/multipart.Writer over a bytes.Buffer.                              *)
(***************************************************************************)
Boundaries == {"boundary1", "boundary2"}

NoWriter == [boundary |-> "", parts |-> <<>>, closed |-> FALSE]

\* multipart.NewWriter: an empty body and a random boundary.
NewWriter(b) == [boundary |-> b, parts |-> <<>>, closed |-> FALSE]

\* writer.CreateFormFile(field, filename): opens a new part.  `by` and `src`
\* record the goroutine that wrote the part and the file it is filled from.
CreateFormFile(w, field, filename, by, src) ==
    [w EXCEPT !.parts = Append(@, [field |-> field, filename |-> filename,
                                   content |-> <<>>, by |-> by, src |-> src])]

\* io.Copy(formFile, file) of n bytes into the part opened last.
CopyInto(w, bytes, n) ==
    [w EXCEPT !.parts[Len(w.parts)].content = @ \o SubSeq(bytes, 1, n)]

\* writer.Close(): the closing delimiter is written.
CloseWriter(w) == [w EXCEPT !.closed = TRUE]


(***************************************************************************)
(* The state of one call.                                                  *)
(*   pc        where the call stands ("idle": no call in progress)         *)
(*   op        the operation called                                        *)
(*   pathName  Add's pathName, AddBinary's fileName                        *)
(*   id        Cat's id                                                    *)
(*   reader    the bytes behind the io.Reader being copied                 *)
(*   failed    the system calls that failed in the call, each with the     *)
(*             path it was made on                                         *)
(*   stack     the frames of createMultiPartBody ("cmb") and               *)
(*             createDirectoryMultiPartBody ("dir"), innermost last        *)
(*   handles   the files the call holds open                               *)
(*   boundary, err   what createMultiPartBody returned to main.Add         *)
(*   req       the *http.Request built                                     *)
(*   sent      whether httpClient.Do was given the request                 *)
(*   resp      the *http.Response of the node                              *)
(*   ret       what the call returns                                       *)
(*   nfault    I/O faults injected so far                                  *)
(* The multipart.Writer of a call and the bytes.Buffer under it live on    *)
(* the heap: writers[a] is the writer at address a.                        *)
(***************************************************************************)
NoReq == [set |-> FALSE, url |-> "", boundary |-> "", body |-> NoWriter]

\* A returned pair: the result (nilRes: a nil pointer), or for Cat the
\* response (nilResp: a nil pointer), and the error.
Ret(nilRes, res, nilResp, resp, err) ==
    [nilRes |-> nilRes, res |-> res, nilResp |-> nilResp, resp |-> resp, err |-> err]

NoRet == Ret(TRUE, ZeroResponse, TRUE, NoResp, NoErr)

IdleCall ==
    [pc |-> "idle", op |-> "none", pathName |-> <<>>, id |-> "", reader |-> <<>>,
     failed |-> {}, stack |-> <<>>, handles |-> <<>>, boundary |-> "",
     err |-> NoErr, req |-> NoReq, sent |-> FALSE, resp |-> NoResp,
     ret |-> NoRet, nfault |-> 0]

Frame(fn, path) == [fn |-> fn, path |-> path, entries |-> <<>>, idx |-> 0, wb |-> ""]

Top(c) == Last(c.stack)

SetTop(c, f) == [c EXCEPT !.stack[Len(c.stack)] = f]

Push(c, f) == [c EXCEPT !.stack = Append(@, f)]

\* Whether one more I/O fault may be injected into the call.
FaultLimit == IF Cardinality(goroutines) = 1 THEN MaxFaults ELSE MaxConcurrentFaults

RECURSIVE FaultsOf(_)
FaultsOf(ps) ==
    IF ps = {} THEN 0
    ELSE LET q == CHOOSE q \in ps : TRUE IN call[q].nfault + FaultsOf(ps \ {q})

Faulty(c) == IF FaultsOf(Procs) < FaultLimit THEN {FALSE, TRUE} ELSE {FALSE}

Fault(c) == [c EXCEPT !.nfault = @ + 1]

\* The system call `op` on `path` returned an error.
Failed(c, op, path) == [c EXCEPT !.failed = @ \cup {[op |-> op, path |-> path]}]

\* The boundaries no live writer uses: NewWriter draws 30 random bytes.
FreshBoundaries == Boundaries \ {writers[q].boundary : q \in Procs}

\* A buffer shared by every call (a field of the Client, a package variable).
SharedBuffer(p) == "g1"

\* new(bytes.Buffer) in the call: the address of a buffer of the call's own.
BufferOf(p) == p

\* The call's writer.
W(p) == writers[BufferOf(p)]

Set(p, c) ==
    /\ call' = [call EXCEPT ![p] = c]
    /\ UNCHANGED <<writers, client, goroutines>>

SetW(p, c, w) ==
    /\ call' = [call EXCEPT ![p] = c]
    /\ writers' = [writers EXCEPT ![BufferOf(p)] = w]
    /\ UNCHANGED <<client, goroutines>>

\* The call returns (result, err); the deferred Close of every file it still
\* holds runs.
Finish(c, nilRes, res, err) ==
    [c EXCEPT !.pc = "done", !.handles = <<>>,
              !.ret = Ret(nilRes, res, TRUE, NoResp, err)]

\* One goroutine uses the client.
Init ==
    /\ call = [p \in Procs |-> IdleCall]
    /\ writers = [p \in Procs |-> NoWriter]
    /\ client = NewLocalApi
    /\ goroutines = {"g1"}

\* Every goroutine uses the client.
InitConcurrent ==
    /\ call = [p \in Procs |-> IdleCall]
    /\ writers = [p \in Procs |-> NoWriter]
    /\ client = NewLocalApi
    /\ goroutines = Procs

Return(p) ==
    /\ call[p].pc = "done"
    /\ SetW(p, IdleCall, NoWriter)


(***************************************************************************)
(* package main: Add, createMultiPartBody, createDirectoryMultiPartBody    *)
(***************************************************************************)
\* The innermost frame returns (b, e) to its caller.
\*  - to the loop of createDirectoryMultiPartBody: the boundary of a
\*    createMultiPartBody call is kept when index == 0 or none is held yet,
\*    its error is dropped; a recursive directory call's results are dropped;
\*  - to createMultiPartBody (the directory branch): the error is dropped
\*    and (boundary, nil) is returned in turn;
\*  - to Add: boundary and err.
RECURSIVE MReturn(_, _, _)
MReturn(c, b, e) ==
    LET top  == Top(c)
        rest == Front(c.stack)
    IN  IF rest = <<>> THEN
            [c EXCEPT !.stack = <<>>, !.boundary = b, !.err = e, !.pc = "MAfterBody"]
        ELSE LET caller == Last(rest) IN
            IF caller.fn = "dir" THEN
                LET wb == IF top.fn = "cmb" /\ (caller.idx = 0 \/ caller.wb = "")
                          THEN b ELSE caller.wb
                IN  [c EXCEPT !.stack = [rest EXCEPT ![Len(rest)] =
                                            [caller EXCEPT !.wb = wb, !.idx = @ + 1]],
                              !.pc = "MLoop"]
            ELSE MReturn([c EXCEPT !.stack = rest], b, NoErr)

CallMainAdd(p) ==
    /\ p \in goroutines
    /\ call[p].pc = "idle"
    /\ \E path \in AddPaths :
          Set(p, [IdleCall EXCEPT !.op = "main.Add", !.pathName = path,
                                  !.pc = "MNewWriter"])

\* multiPartBody := new(bytes.Buffer); writer := multipart.NewWriter(...);
\* createMultiPartBody(pathName, writer) is entered.
MNewWriter(p) ==
    /\ call[p].pc = "MNewWriter"
    /\ \E b \in FreshBoundaries :
          SetW(p, [call[p] EXCEPT !.stack = <<Frame("cmb", call[p].pathName)>>,
                                  !.pc = "MStat"],
                  NewWriter(b))

\* createMultiPartBody: os.Stat(pathName) and the IsDir() branch.
MStat(p) ==
    LET c == call[p] IN
    /\ c.pc = "MStat"
    /\ \E f \in Faulty(c) :
          IF ~Exists(Top(c).path) THEN
              ~f /\ Set(p, MReturn(Failed(c, "stat", Top(c).path),
                                    "", "stat: no such file"))
          ELSE IF f THEN
              Set(p, MReturn(Failed(Fault(c), "stat", Top(c).path),
                             "", "stat: permission denied"))
          ELSE IF IsDir(Top(c).path) THEN
              Set(p, [Push(c, Frame("dir", Top(c).path)) EXCEPT !.pc = "MReadDir"])
          ELSE
              Set(p, [c EXCEPT !.pc = "MCreateFormFile"])

\* writer.CreateFormFile("file", path.Base(pathName))
MCreateFormFile(p) ==
    LET c == call[p] IN
    /\ c.pc = "MCreateFormFile"
    /\ SetW(p, [c EXCEPT !.pc = "MOpen"],
            CreateFormFile(W(p), "file", Base(Top(c).path), p, Top(c).path))

\* file, err := os.Open(pathName); defer file.Close()
MOpen(p) ==
    LET c == call[p] IN
    /\ c.pc = "MOpen"
    /\ \E f \in Faulty(c) :
          IF ~Exists(Top(c).path) THEN
              ~f /\ Set(p, MReturn(Failed(c, "open", Top(c).path),
                                    "", "open: no such file"))
          ELSE IF f THEN
              Set(p, MReturn(Failed(Fault(c), "open", Top(c).path),
                             "", "open: permission denied"))
          ELSE
              Set(p, [c EXCEPT !.handles = Append(@, Top(c).path), !.pc = "MCopy"])

\* io.Copy(formFile, file), writerBoundary = writer.Boundary(), return; the
\* deferred file.Close() runs.  A failing read leaves the bytes copied so
\* far in the part.
MCopy(p) ==
    LET c     == call[p]
        bytes == Node(Top(c).path).bytes
        shut  == [c EXCEPT !.handles = Front(@)]
    IN
    /\ c.pc = "MCopy"
    /\ \E f \in Faulty(c) :
          IF f THEN
              \E n \in 0..(Len(bytes) - 1) :
                 SetW(p, MReturn(Failed(Fault(shut), "copy", Top(c).path),
                                 "", "read: input/output error"),
                         CopyInto(W(p), bytes, n))
          ELSE
              SetW(p, MReturn(shut, W(p).boundary, NoErr),
                      CopyInto(W(p), bytes, Len(bytes)))

\* createDirectoryMultiPartBody: os.ReadDir(pathName)
MReadDir(p) ==
    LET c == call[p] IN
    /\ c.pc = "MReadDir"
    /\ \E f \in Faulty(c) :
          IF ~IsDir(Top(c).path) THEN
              ~f /\ Set(p, MReturn(Failed(c, "readdir", Top(c).path),
                                    "", "readdir: not a directory"))
          ELSE IF f THEN
              Set(p, MReturn(Failed(Fault(c), "readdir", Top(c).path),
                             "", "readdir: permission denied"))
          ELSE
              Set(p, [SetTop(c, [Top(c) EXCEPT !.entries = ReadDir(Top(c).path)])
                         EXCEPT !.pc = "MLoop"])

\* for index, file := range entries: a directory entry re-enters
\* createDirectoryMultiPartBody(pathName + file.Name()), any other entry
\* enters createMultiPartBody(pathName + "/" + file.Name()); past the last
\* entry the function returns (writerBoundary, nil).
MLoop(p) ==
    LET c   == call[p]
        top == Top(c)
    IN
    /\ c.pc = "MLoop"
    /\ IF top.idx >= Len(top.entries) THEN
           Set(p, MReturn(c, top.wb, NoErr))
       ELSE LET file == top.entries[top.idx + 1] IN
           IF file.isDir THEN
               Set(p, [Push(c, Frame("dir", top.path \o file.name))
                          EXCEPT !.pc = "MReadDir"])
           ELSE
               Set(p, [Push(c, Frame("cmb", top.path \o Slash \o file.name))
                          EXCEPT !.pc = "MStat"])

\* Add going on to writer.Close() and the request without looking at err.
MAfterBodyUnchecked(p) ==
    LET c == call[p] IN
    /\ c.pc = "MAfterBody"
    /\ SetW(p, [c EXCEPT !.pc = "MNewRequest"], CloseWriter(W(p)))

\* Add after createMultiPartBody: return nil, err on an error, else
\* writer.Close().
MAfterBody(p) ==
    LET c == call[p] IN
    /\ c.pc = "MAfterBody"
    /\ IF c.err # NoErr THEN
           Set(p, Finish(c, TRUE, ZeroResponse, c.err))
       ELSE
           SetW(p, [c EXCEPT !.pc = "MNewRequest"], CloseWriter(W(p)))

\* http.NewRequest("POST", client.url + apiEndpoint["add"], multiPartBody)
\* and Content-Type: multipart/form-data; boundary=<boundary>
MNewRequest(p) ==
    LET c == call[p] IN
    /\ c.pc = "MNewRequest"
    /\ Set(p, [c EXCEPT !.req = [set |-> TRUE,
                                 url |-> client.url \o apiEndpoint["add"],
                                 boundary |-> c.boundary,
                                 body |-> W(p)],
                        !.pc = "Do"])


(***************************************************************************)
(* package client: Add, AddBinary, Client.createMultiPartBody,             *)
(* Client.createDirectoryMultiPartBody                                     *)
(***************************************************************************)
CallClientAdd(p) ==
    /\ p \in goroutines
    /\ call[p].pc = "idle"
    /\ \E path \in AddPaths :
          Set(p, [IdleCall EXCEPT !.op = "client.Add", !.pathName = path,
                                  !.pc = "CStat"])

\* The file names and streams handed to AddBinary.
BinaryNames == {<<"n">>, <<"/", "t", "/", "n">>}

BinaryContent == <<9>>

\* AddBinary(content, fileName) enters createMultiPartBody(content, fileName).
CallAddBinary(p) ==
    /\ p \in goroutines
    /\ call[p].pc = "idle"
    /\ \E name \in BinaryNames :
          Set(p, [IdleCall EXCEPT !.op = "client.AddBinary", !.pathName = name,
                                  !.reader = BinaryContent, !.pc = "CNewWriter"])

\* Add: os.Stat(pathName) and the IsDir() branch.
CStat(p) ==
    LET c == call[p] IN
    /\ c.pc = "CStat"
    /\ \E f \in Faulty(c) :
          IF ~Exists(c.pathName) THEN
              ~f /\ Set(p, Finish(Failed(c, "stat", c.pathName),
                                   TRUE, ZeroResponse, "stat: no such file"))
          ELSE IF f THEN
              Set(p, Finish(Failed(Fault(c), "stat", c.pathName),
                            TRUE, ZeroResponse, "stat: permission denied"))
          ELSE IF IsDir(c.pathName) THEN
              Set(p, [c EXCEPT !.pc = "DNewWriter"])
          ELSE
              Set(p, [c EXCEPT !.pc = "COpen"])

\* Add: file, err := os.Open(pathName); defer file.Close(); then
\* createMultiPartBody(file, pathName).
COpen(p) ==
    LET c == call[p] IN
    /\ c.pc = "COpen"
    /\ \E f \in Faulty(c) :
          IF f THEN
              Set(p, Finish(Failed(Fault(c), "open", c.pathName),
                            TRUE, ZeroResponse, "open: permission denied"))
          ELSE
              Set(p, [c EXCEPT !.handles = Append(@, c.pathName),
                               !.reader = Node(c.pathName).bytes,
                               !.pc = "CNewWriter"])

\* createMultiPartBody: multipartBody := new(bytes.Buffer); NewWriter.
CNewWriter(p) ==
    /\ call[p].pc = "CNewWriter"
    /\ \E b \in FreshBoundaries :
          SetW(p, [call[p] EXCEPT !.pc = "CCreateFormFile"], NewWriter(b))

\* writer.CreateFormFile("file", fileName): fileName is what the caller
\* passed, Add's pathName or AddBinary's fileName.
CCreateFormFile(p) ==
    LET c == call[p] IN
    /\ c.pc = "CCreateFormFile"
    /\ SetW(p, [c EXCEPT !.pc = "CCopy"],
            CreateFormFile(W(p), "file", c.pathName, p,
                           IF c.op = "client.Add" THEN c.pathName ELSE <<>>))

\* io.Copy(formFile, file); an error is returned to the caller, which
\* returns it.
CCopy(p) ==
    LET c == call[p] IN
    /\ c.pc = "CCopy"
    /\ \E f \in Faulty(c) :
          IF f THEN
              \E n \in 0..(Len(c.reader) - 1) :
                 SetW(p, Finish(Failed(Fault(c), "copy", c.pathName),
                                TRUE, ZeroResponse, "read: input/output error"),
                         CopyInto(W(p), c.reader, n))
          ELSE
              SetW(p, [c EXCEPT !.pc = "CClose"],
                      CopyInto(W(p), c.reader, Len(c.reader)))

\* writer.Close()
CClose(p) ==
    LET c == call[p] IN
    /\ c.pc = "CClose"
    /\ SetW(p, [c EXCEPT !.pc = "CNewRequest"], CloseWriter(W(p)))

\* http.NewRequest("POST", client.url + apiEndpoint["add"], multipartBody)
\* and Content-Type: multipart/form-data; boundary=writer.Boundary()
CNewRequest(p) ==
    LET c == call[p] IN
    /\ c.pc = "CNewRequest"
    /\ Set(p, [c EXCEPT !.req = [set |-> TRUE,
                                 url |-> client.url \o apiEndpoint["add"],
                                 boundary |-> W(p).boundary,
                                 body |-> W(p)],
                        !.pc = "Do"])

\* createDirectoryMultiPartBody: multipartBody := new(bytes.Buffer); NewWriter.
DNewWriter(p) ==
    /\ call[p].pc = "DNewWriter"
    /\ \E b \in FreshBoundaries :
          SetW(p, [call[p] EXCEPT !.stack = <<Frame("dir", call[p].pathName)>>,
                                  !.pc = "DReadDir"],
                  NewWriter(b))

\* entries, err := os.ReadDir(path)
DReadDir(p) ==
    LET c == call[p] IN
    /\ c.pc = "DReadDir"
    /\ \E f \in Faulty(c) :
          IF f THEN
              Set(p, Finish(Failed(Fault(c), "readdir", Top(c).path),
                            TRUE, ZeroResponse, "readdir: permission denied"))
          ELSE
              Set(p, [SetTop(c, [Top(c) EXCEPT !.entries = ReadDir(Top(c).path)])
                         EXCEPT !.pc = "DLoop"])

\* for _, file := range entries: a directory entry is skipped (continue).
DLoop(p) ==
    LET c   == call[p]
        top == Top(c)
    IN
    /\ c.pc = "DLoop"
    /\ IF top.idx >= Len(top.entries) THEN
           Set(p, [c EXCEPT !.pc = "DNewRequest"])
       ELSE IF top.entries[top.idx + 1].isDir THEN
           Set(p, SetTop(c, [top EXCEPT !.idx = @ + 1]))
       ELSE
           Set(p, [c EXCEPT !.pc = "DCreateFormFile"])

\* writer.CreateFormFile("file", file.Name())
DCreateFormFile(p) ==
    LET c    == call[p]
        top  == Top(c)
        file == top.entries[top.idx + 1]
    IN
    /\ c.pc = "DCreateFormFile"
    /\ SetW(p, [c EXCEPT !.pc = "DOpen"],
            CreateFormFile(W(p), "file", file.name, p,
                           top.path \o Slash \o file.name))

\* fileContent, err := os.Open(path + "/" + file.Name());
\* defer fileContent.Close(); an error is returned.
DOpen(p) ==
    LET c    == call[p]
        top  == Top(c)
        path == top.path \o Slash \o top.entries[top.idx + 1].name
    IN
    /\ c.pc = "DOpen"
    /\ \E f \in Faulty(c) :
          IF f THEN
              Set(p, Finish(Failed(Fault(c), "open", path),
                            TRUE, ZeroResponse, "open: permission denied"))
          ELSE
              Set(p, [c EXCEPT !.handles = Append(@, path), !.pc = "DCopy"])

\* _, err = io.Copy(formFile, fileContent): err is not looked at, the loop
\* goes on to the next entry.
DCopy(p) ==
    LET c     == call[p]
        top   == Top(c)
        bytes == Node(Last(c.handles)).bytes
        next  == [SetTop(c, [top EXCEPT !.idx = @ + 1]) EXCEPT !.pc = "DLoop"]
    IN
    /\ c.pc = "DCopy"
    /\ \E f \in Faulty(c) :
          IF f THEN
              \E n \in 0..(Len(bytes) - 1) :
                 SetW(p, Failed(Fault(next), "copy", Last(c.handles)),
                         CopyInto(W(p), bytes, n))
          ELSE
              SetW(p, next, CopyInto(W(p), bytes, Len(bytes)))

\* http.NewRequest(...), the Content-Type header, return req, nil: the
\* deferred Close of every file opened in the loop runs.  writer.Close() is
\* not called on this path.
DNewRequest(p) ==
    LET c == call[p] IN
    /\ c.pc = "DNewRequest"
    /\ Set(p, [c EXCEPT !.req = [set |-> TRUE,
                                 url |-> client.url \o apiEndpoint["add"],
                                 boundary |-> W(p).boundary,
                                 body |-> W(p)],
                        !.handles = <<>>,
                        !.stack = <<>>,
                        !.pc = "Do"])

(***************************************************************************)
(* Cat                                                                     *)
(***************************************************************************)
CallCat(p) ==
    /\ p \in goroutines
    /\ call[p].pc = "idle"
    /\ \E id \in CatIds :
          Set(p, [IdleCall EXCEPT !.op = "Cat", !.id = id, !.pc = "CatNewRequest"])

\* http.NewRequest("POST", client.url + apiEndpoint["cat"] + "?arg=" + id, nil)
CatNewRequest(p) ==
    LET c == call[p] IN
    /\ c.pc = "CatNewRequest"
    /\ Set(p, [c EXCEPT !.req = [set |-> TRUE,
                                 url |-> client.url \o apiEndpoint["cat"] \o "?arg=" \o c.id,
                                 boundary |-> "",
                                 body |-> NoWriter],
                        !.pc = "Do"])

(***************************************************************************)
(* The exchange with the node.                                             *)
(***************************************************************************)
\* What the node may answer to the call's request.
Responses(c) ==
    IF c.op = "Cat" THEN {CatResponse(c.id)}
    ELSE {[status |-> 200, body |-> b] : b \in AddBodies}

\* readIPFSResponse: ret := new(IPFSResponse); io.ReadAll(resp.Body), nil
\* on a read error; json.Unmarshal(bodyBytes, ret), its error dropped.
readIPFSResponse(resp, readFails) ==
    IF readFails THEN [nilRes |-> TRUE, res |-> ZeroResponse]
    ELSE [nilRes |-> FALSE, res |-> Unmarshal(resp.body, ZeroResponse)]

\* apiResponse, err = client.httpClient.Do(req): the request goes out; on a
\* transport error (nil, err) is returned.  Cat returns the response as it
\* is, whatever its status; Add and AddBinary return
\* readIPFSResponse(apiResponse), nil.
Do(p) ==
    LET c    == call[p]
        sent == [c EXCEPT !.sent = TRUE]
    IN
    /\ c.pc = "Do"
    /\ \E ok \in BOOLEAN :
          IF ~ok THEN
              Set(p, Finish(sent, TRUE, ZeroResponse, "transport error"))
          ELSE \E r \in Responses(c) :
              IF c.op = "Cat" THEN
                  Set(p, [sent EXCEPT !.pc = "done", !.resp = r,
                                      !.ret = Ret(TRUE, ZeroResponse, FALSE, r, NoErr)])
              ELSE \E f \in Faulty(c) :
                  LET ret == readIPFSResponse(r, f) IN
                  Set(p, Finish([(IF f THEN Failed(Fault(sent), "readall", <<>>)
                                       ELSE sent) EXCEPT !.resp = r],
                                ret.nilRes, ret.res, NoErr))

(***************************************************************************)
(* The specification.                                                      *)
(***************************************************************************)
Next ==
    \E p \in Procs :
       \/ CallMainAdd(p) \/ MNewWriter(p) \/ MStat(p) \/ MCreateFormFile(p)
       \/ MOpen(p) \/ MCopy(p) \/ MReadDir(p) \/ MLoop(p) \/ MAfterBody(p)
       \/ MNewRequest(p)
       \/ CallClientAdd(p) \/ CallAddBinary(p) \/ CStat(p) \/ COpen(p)
       \/ CNewWriter(p) \/ CCreateFormFile(p) \/ CCopy(p) \/ CClose(p)
       \/ CNewRequest(p)
       \/ DNewWriter(p) \/ DReadDir(p) \/ DLoop(p) \/ DCreateFormFile(p)
       \/ DOpen(p) \/ DCopy(p) \/ DNewRequest(p)
       \/ CallCat(p) \/ CatNewRequest(p)
       \/ Do(p) \/ Return(p)

Spec == Init /\ [][Next]_vars

Concurrent == InitConcurrent /\ [][Next]_vars


(***************************************************************************)
(* Properties.                                                             *)
(***************************************************************************)
AddOps == {"main.Add", "client.Add"}

UploadOps == AddOps \cup {"client.AddBinary"}

\* os.Stat of the call's own pathName returned an error.
StatFailed(c) == [op |-> "stat", path |-> c.pathName] \in c.failed

\* The call returned (nil, err) with err non-nil.
ReturnedError(c) == c.pc = "done" /\ c.ret.nilRes /\ c.ret.err # NoErr

\* C1: for every path that does not exist or cannot be stat'ed, Add returns
\* a nil result and a non-nil error, and no request is built or handed to
\* the HTTP client at any point of the call.
C1_NoRequestWhenStatFails ==
    \A p \in Procs :
       LET c == call[p] IN
       /\ (c.op \in AddOps /\ ~Exists(c.pathName)) =>
             /\ ~c.sent /\ ~c.req.set
             /\ c.pc = "done" => (StatFailed(c) /\ ReturnedError(c))
       /\ (c.op \in AddOps /\ StatFailed(c)) =>
             /\ ~c.sent /\ ~c.req.set
             /\ c.pc \in {"MAfterBody", "done"}
             /\ c.pc = "done" => ReturnedError(c)

\* An Add on a path that does not exist has returned its error.
C1_Witness ==
    \E p \in Procs :
       /\ call[p].op \in AddOps
       /\ ~Exists(call[p].pathName)
       /\ StatFailed(call[p])
       /\ ReturnedError(call[p])

\* C2: for every regular file P, the request sent by Add(P) carries exactly
\* one part, with field name "file", filename the base name of P and
\* content the bytes of the file.
C2_SingleFilePart ==
    \A p \in Procs :
       LET c == call[p] IN
       (c.op \in AddOps /\ IsRegular(c.pathName) /\ c.sent) =>
          /\ Len(c.req.body.parts) = 1
          /\ c.req.body.parts[1].field = "file"
          /\ c.req.body.parts[1].filename = Base(c.pathName)
          /\ c.req.body.parts[1].content = Node(c.pathName).bytes

\* The immediate entries of a directory are regular files only.
FilesOnly(path) == \A i \in DOMAIN ReadDir(path) : ~ReadDir(path)[i].isDir

\* C3: for every directory whose entries are regular files only, the
\* request sent by Add carries exactly one "file" part per entry, named for
\* the entry, holding the bytes of its file, in listing order.
C3_OnePartPerEntry ==
    \A p \in Procs :
       LET c == call[p] IN
       (c.op \in AddOps /\ IsDir(c.pathName) /\ FilesOnly(c.pathName) /\ c.sent) =>
          /\ Len(c.req.body.parts) = Len(ReadDir(c.pathName))
          /\ \A i \in DOMAIN c.req.body.parts :
                /\ c.req.body.parts[i].field = "file"
                /\ c.req.body.parts[i].filename = ReadDir(c.pathName)[i].name
                /\ c.req.body.parts[i].content =
                      FSTree[Append(Resolve(c.pathName), ReadDir(c.pathName)[i].name)].bytes

\* C4: when the node answers Cat with a status outside 200..299, Cat
\* returns an error.
C4_CatReportsStatus ==
    \A p \in Procs :
       LET c == call[p] IN
       (c.op = "Cat" /\ c.pc = "done" /\ ~c.ret.nilResp
            /\ ~(c.ret.resp.status \in 200..299)) =>
          c.ret.err # NoErr

\* The body is one syntactically valid JSON value.
OneJSONValue(b) == b.valid /\ Len(b.docs) = 1

\* The body is one JSON object whose Name, Hash and Size are strings.
ThreeStringFields(b) ==
    /\ OneJSONValue(b)
    /\ b.docs[1].t = "object"
    /\ \A k \in Fields : k \in DOMAIN b.docs[1].f /\ b.docs[1].f[k].t = "string"

\* The exchange of an upload succeeded and the body was read.
Exchanged(c) ==
    /\ c.op \in UploadOps
    /\ c.pc = "done"
    /\ c.sent
    /\ c.resp.status # 0
    /\ ~(\E e \in c.failed : e.op = "readall")

\* C5 as stated: when the exchange succeeds and the body is not one JSON
\* object with the three string fields, the call returns a nil error and a
\* result whose Name, Hash and Size are all empty.
C5_UnparsableGivesZero ==
    \A p \in Procs :
       LET c == call[p] IN
       (Exchanged(c) /\ ~ThreeStringFields(c.resp.body)) =>
          /\ c.ret.err = NoErr
          /\ ~c.ret.nilRes
          /\ c.ret.res = ZeroResponse

\* What a field holds after decoding: the string under its key when the
\* body is one JSON object and the key's value is a string, else nothing.
DecodedField(b, k) ==
    IF /\ OneJSONValue(b)
       /\ b.docs[1].t = "object"
       /\ k \in DOMAIN b.docs[1].f
       /\ b.docs[1].f[k].t = "string"
    THEN b.docs[1].f[k].s
    ELSE ""

\* C5 amended: when the exchange succeeds and the body is read, the call
\* returns a nil error and a non-nil result; the result is all empty when
\* the body is not one valid JSON value (malformed, several objects) or not
\* an object; when it is one object, each of Name, Hash, Size holds its
\* key's string and is empty when the key is absent, null or of another
\* type, the other fields being filled all the same.
C5_DecodedFieldByField ==
    \A p \in Procs :
       LET c == call[p] IN
       Exchanged(c) =>
          /\ c.ret.err = NoErr
          /\ ~c.ret.nilRes
          /\ \A k \in Fields : c.ret.res[k] = DecodedField(c.resp.body, k)
          /\ (~OneJSONValue(c.resp.body) \/ c.resp.body.docs[1].t # "object") =>
                c.ret.res = ZeroResponse

\* A body with a wrong-typed Size was decoded: Size is empty, Name is not.
C5_Witness ==
    \E p \in Procs :
       LET c == call[p] IN
       /\ Exchanged(c)
       /\ OneJSONValue(c.resp.body)
       /\ c.resp.body.docs[1].t = "object"
       /\ "Size" \in DOMAIN c.resp.body.docs[1].f
       /\ c.resp.body.docs[1].f["Size"].t = "number"
       /\ c.ret.res.Size = ""
       /\ c.ret.res.Name # ""

\* C6: during Add on a directory, if opening or copying an entry's file
\* fails, Add returns an error and no request is sent.
C6_FailureAbortsDirectoryAdd ==
    \A p \in Procs :
       LET c == call[p] IN
       (c.op \in AddOps /\ IsDir(c.pathName)
            /\ \E e \in c.failed : e.op \in {"open", "copy"}) =>
          /\ ~c.sent
          /\ c.pc = "done" => ReturnedError(c)

\* C7: whatever the interleaving of the calls of several goroutines, every
\* part in a call's buffer and in its request was written by that call, the
\* body of its request is delimited by the boundary of its own writer, the
\* boundary in its header is never that of another call's writer, and the
\* Client is as constructed.
C7_CallsDoNotInterfere ==
    /\ client = NewLocalApi
    /\ \A p \in Procs :
          LET c == call[p] IN
          c.op \in AddOps =>
             /\ \A i \in DOMAIN W(p).parts : W(p).parts[i].by = p
             /\ c.req.set =>
                   /\ \A i \in DOMAIN c.req.body.parts : c.req.body.parts[i].by = p
                   /\ c.req.body.boundary # ""
                   /\ c.req.body.boundary = W(p).boundary
                   /\ \A q \in Procs \ {p} :
                         W(q).boundary # "" =>
                            /\ c.req.boundary # W(q).boundary
                            /\ c.req.body.boundary # W(q).boundary

\* Two Add calls on distinct paths are in progress and both have sent a
\* request with parts.
C7_Witness ==
    \E p \in Procs : \E q \in Procs \ {p} :
       /\ call[p].op \in AddOps /\ call[q].op \in AddOps
       /\ call[p].pathName # call[q].pathName
       /\ call[p].sent /\ call[q].sent
       /\ Len(call[p].req.body.parts) > 0
       /\ Len(call[q].req.body.parts) > 0

\* C8: for every directory D passed to Add, every part of the sent request
\* is filled from a regular file that is an immediate entry of D and is
\* named for it.
C8_OnlyImmediateFiles ==
    \A p \in Procs :
       LET c == call[p] IN
       (c.op \in AddOps /\ IsDir(c.pathName) /\ c.sent) =>
          \A i \in DOMAIN c.req.body.parts :
             \E j \in DOMAIN ReadDir(c.pathName) :
                /\ ~ReadDir(c.pathName)[j].isDir
                /\ c.req.body.parts[i].filename = ReadDir(c.pathName)[j].name
                /\ Resolve(c.req.body.parts[i].src) =
                      Append(Resolve(c.pathName), ReadDir(c.pathName)[j].name)

\* C9: in every request sent by Add or AddBinary the boundary named in the
\* Content-Type header is non-empty and is the boundary that delimits the
\* parts of the body.
C9_HeaderBoundaryIsBodyBoundary ==
    \A p \in Procs :
       LET c == call[p] IN
       (c.op \in UploadOps /\ c.sent) =>
          /\ c.req.boundary # ""
          /\ c.req.boundary = c.req.body.boundary

\* C10: the body of every request built by Add or AddBinary is finalized:
\* the writer was closed before the request was created.
C10_BodyIsFinalized ==
    \A p \in Procs :
       LET c == call[p] IN
       (c.op \in UploadOps /\ c.req.set) => c.req.body.closed

\* C11: during Add on a directory every file is closed once its part has
\* been copied and before the next entry's file is opened: no file of the
\* call is open when an entry is about to be opened or when the loop moves
\* on, at most one is open at any point, and none is open once Add has
\* returned.
C11_HandlesClosedPromptly ==
    \A p \in Procs :
       LET c == call[p] IN
       (c.op \in AddOps /\ IsDir(c.pathName)) =>
          /\ Len(c.handles) <= 1
          /\ c.pc \in {"MOpen", "DOpen", "MLoop", "DLoop"} => c.handles = <<>>
          /\ c.pc = "done" => c.handles = <<>>

=============================================================================
